---- MODULE Spec2Model ----
(***************************************************************************)
(* A model of the chunkr_pdf_extraction service:                           *)
(*   app/extract.py        the flat-to-nested field mapper, the rate node  *)
(*                         builder, the date normaliser and the assembler  *)
(*   app/chunkr_client.py  the two polling loops                           *)
(*   app/routers.py        the /process/file route                         *)
(*                                                                         *)
(* A Python string is a sequence of symbols.  A symbol is one character,   *)
(* or a run of characters that holds no ".", no whitespace and no digit    *)
(* and that the code never looks into (a path segment such as "rates").    *)
(* A Python value is a record [t, s, kv]: t its type, s its string (or the *)
(* decimal digits of an int, or the name of an exception), kv its mapping  *)
(* (a function from keys to values) or its list (a sequence of values).    *)
(***************************************************************************)
EXTENDS Integers, Sequences, FiniteSets, TLC

VARIABLES
    \* extract_airline_rate_fields
    ex_pc,            \* "call", "returned" or "raised"
    chunkr_response,  \* the argument
    flat,             \* the local built by _dotpaths_to_nested
    result,           \* the returned document, or the exception raised
    \* _normalize_valid_until
    nv_pc,            \* "idle" or "returned"
    days,             \* the offset N the next relative input is written with
    calendar,         \* the date `days` days after REF_DATE, advanced day by day
    v,                \* the argument
    ret,              \* the returned string
    \* poll_task_until_complete / poll_task_until_complete_legacy
    poll_pc,          \* "request", "sleep", "returned" or "raised"
    api,              \* "new" or "legacy"
    max_tries,        \* the keyword argument
    tries,            \* loop iterations finished
    requests,         \* status requests sent
    sleeps,           \* waits of delay_seconds finished
    resp,             \* the last response
    raised,           \* the exception the call raised, "" if none
    \* process_file
    route_pc,         \* the position in the handler
    tmp_path,         \* the local tmp_path: "None" or "set"
    tmp_file,         \* is the temporary file on disk
    sdk_result,       \* what task.poll() returned
    http,             \* what the caller receives: "", "200", "502"
    unlink_failed     \* did os.unlink raise

vars == <<ex_pc, chunkr_response, flat, result, nv_pc, days, calendar, v, ret,
          poll_pc, api, max_tries, tries, requests, sleeps, resp, raised,
          route_pc, tmp_path, tmp_file, sdk_result, http, unlink_failed>>

extract_vars == <<ex_pc, chunkr_response, flat, result>>
date_vars == <<nv_pc, days, calendar, v, ret>>
poll_vars == <<poll_pc, api, max_tries, tries, requests, sleeps, resp, raised>>
route_vars == <<route_pc, tmp_path, tmp_file, sdk_result, http, unlink_failed>>

-----------------------------------------------------------------------------
(* Strings *)

Digits == <<"0", "1", "2", "3", "4", "5", "6", "7", "8", "9">>

\* \d of the regular expressions
IsDigit(c) == \E i \in 1..10 : Digits[i] = c

DigitVal(c) == (CHOOSE i \in 1..10 : Digits[i] = c) - 1

\* what str.strip() removes and \s matches
IsSpace(c) == c \in {" ", "\t", "\n"}

Upper == <<"A", "B", "C", "D", "E", "F", "G", "H", "I", "J", "K", "L", "M",
           "N", "O", "P", "Q", "R", "S", "T", "U", "V", "W", "X", "Y", "Z">>
Lowercase == <<"a", "b", "c", "d", "e", "f", "g", "h", "i", "j", "k", "l", "m",
           "n", "o", "p", "q", "r", "s", "t", "u", "v", "w", "x", "y", "z">>

\* the case folding of re.I
LowerChar(c) ==
    IF \E i \in 1..26 : Upper[i] = c
    THEN Lowercase[CHOOSE i \in 1..26 : Upper[i] = c]
    ELSE c

Lower(s) == [i \in 1..Len(s) |-> LowerChar(s[i])]

RECURSIVE LStrip(_)
LStrip(s) == IF s # <<>> /\ IsSpace(Head(s)) THEN LStrip(Tail(s)) ELSE s

RECURSIVE RStrip(_)
RStrip(s) ==
    IF s # <<>> /\ IsSpace(s[Len(s)]) THEN RStrip(SubSeq(s, 1, Len(s) - 1)) ELSE s

\* str.lstrip() in the place of str.strip()
Strip_left(s) == LStrip(s)

\* str.strip()
Strip(s) == RStrip(LStrip(s))

\* str.split(sep): the pieces between the occurrences of the symbol sep
RECURSIVE Split(_, _)
Split(s, sep) ==
    IF \A i \in 1..Len(s) : s[i] # sep
    THEN <<s>>
    ELSE LET k == CHOOSE i \in 1..Len(s) :
                      s[i] = sep /\ \A j \in 1..(i - 1) : s[j] # sep
         IN  <<SubSeq(s, 1, k - 1)>> \o Split(SubSeq(s, k + 1, Len(s)), sep)

\* the pieces between the runs of whitespace of a stripped string
RECURSIVE Words(_)
Words(s) ==
    IF \A i \in 1..Len(s) : ~IsSpace(s[i])
    THEN <<s>>
    ELSE LET k == CHOOSE i \in 1..Len(s) :
                      IsSpace(s[i]) /\ \A j \in 1..(i - 1) : ~IsSpace(s[j])
         IN  <<SubSeq(s, 1, k - 1)>> \o Words(LStrip(SubSeq(s, k, Len(s))))

\* int() of a run of digits
RECURSIVE ParseInt(_)
ParseInt(ds) ==
    IF ds = <<>> THEN 0
    ELSE 10 * ParseInt(SubSeq(ds, 1, Len(ds) - 1)) + DigitVal(ds[Len(ds)])

\* the decimal digits of n, zero-padded to width w
RECURSIVE Pad(_, _)
Pad(n, w) ==
    IF n < 10 /\ w <= 1 THEN <<Digits[n + 1]>>
    ELSE Pad(n \div 10, w - 1) \o <<Digits[(n % 10) + 1]>>

AllDigits(s) == \A i \in 1..Len(s) : IsDigit(s[i])

-----------------------------------------------------------------------------
(* Dates: datetime, timedelta, strptime and strftime as extract.py uses them *)

IsLeap(y) == (y % 4 = 0) /\ ((y % 100 # 0) \/ (y % 400 = 0))

DaysInMonth(y, m) ==
    IF m = 2 THEN (IF IsLeap(y) THEN 29 ELSE 28)
    ELSE IF m \in {4, 6, 9, 11} THEN 30 ELSE 31

Date(y, m, d) == [y |-> y, m |-> m, d |-> d]

\* the days before year y
DaysBeforeYear(y) ==
    LET p == y - 1 IN p * 365 + (p \div 4) - (p \div 100) + (p \div 400)

RECURSIVE DaysBeforeMonth(_, _)
DaysBeforeMonth(y, m) ==
    IF m = 1 THEN 0 ELSE DaysBeforeMonth(y, m - 1) + DaysInMonth(y, m - 1)

\* date.toordinal(): 0001-01-01 is day 1
ToOrdinal(dt) == DaysBeforeYear(dt.y) + DaysBeforeMonth(dt.y, dt.m) + dt.d

\* date.fromordinal()
FromOrdinal(n) ==
    LET y  == CHOOSE yy \in ((n \div 366) + 1)..((n \div 365) + 1) :
                  DaysBeforeYear(yy) < n /\ n <= DaysBeforeYear(yy + 1)
        r  == n - DaysBeforeYear(y)
        m  == CHOOSE mm \in 1..12 :
                  DaysBeforeMonth(y, mm) < r /\ r <= DaysBeforeMonth(y, mm) + DaysInMonth(y, mm)
    IN  Date(y, m, r - DaysBeforeMonth(y, m))

\* datetime + timedelta(days=n)
PlusDays(dt, n) == FromOrdinal(ToOrdinal(dt) + n)

\* strftime("%Y-%m-%d") (years of four digits; a shorter year is padded or
\* not depending on the C library, and no input of the model parses to one)
Strftime(dt) == Pad(dt.y, 4) \o <<"-">> \o Pad(dt.m, 2) \o <<"-">> \o Pad(dt.d, 2)

REF_DATE == Date(2025, 9, 23)

NoDate == Date(0, 0, 0)

\* the text %d accepts
IsDayField(s) ==
    \/ Len(s) = 1 /\ IsDigit(s[1]) /\ s[1] # "0"
    \/ Len(s) = 2 /\ s[1] = "0" /\ IsDigit(s[2]) /\ s[2] # "0"
    \/ Len(s) = 2 /\ s[1] \in {"1", "2"} /\ IsDigit(s[2])
    \/ Len(s) = 2 /\ s[1] = "3" /\ s[2] \in {"0", "1"}
    \/ Len(s) = 2 /\ s[1] = " " /\ IsDigit(s[2]) /\ s[2] # "0"

\* the text %m accepts
IsMonthField(s) ==
    \/ Len(s) = 1 /\ IsDigit(s[1]) /\ s[1] # "0"
    \/ Len(s) = 2 /\ s[1] = "0" /\ IsDigit(s[2]) /\ s[2] # "0"
    \/ Len(s) = 2 /\ s[1] = "1" /\ s[2] \in {"0", "1", "2"}

\* the text %Y accepts
IsYearField(s) == Len(s) = 4 /\ AllDigits(s)

\* the text %b accepts, in month order
MonthAbbr == << <<"j","a","n">>, <<"f","e","b">>, <<"m","a","r">>, <<"a","p","r">>,
                <<"m","a","y">>, <<"j","u","n">>, <<"j","u","l">>, <<"a","u","g">>,
                <<"s","e","p">>, <<"o","c","t">>, <<"n","o","v">>, <<"d","e","c">> >>

\* the text %B accepts, in month order
MonthFull == << <<"j","a","n","u","a","r","y">>, <<"f","e","b","r","u","a","r","y">>,
                <<"m","a","r","c","h">>, <<"a","p","r","i","l">>, <<"m","a","y">>,
                <<"j","u","n","e">>, <<"j","u","l","y">>, <<"a","u","g","u","s","t">>,
                <<"s","e","p","t","e","m","b","e","r">>, <<"o","c","t","o","b","e","r">>,
                <<"n","o","v","e","m","b","e","r">>, <<"d","e","c","e","m","b","e","r">> >>

\* datetime(y, m, d) of parsed fields, NoDate when the constructor raises ValueError
MakeDate(y, m, d) ==
    IF y >= 1 /\ d <= DaysInMonth(y, m) THEN Date(y, m, d) ELSE NoDate

DayOf(s) == ParseInt(IF s[1] = " " THEN Tail(s) ELSE s)

\* strptime with a format of three numeric fields around one separator:
\* order is the places of the day, the month and the year among the fields
StrptimeNumeric(s, sep, order) ==
    LET f == Split(s, sep) IN
    IF Len(f) = 3 /\ IsDayField(f[order[1]]) /\ IsMonthField(f[order[2]])
                  /\ IsYearField(f[order[3]])
    THEN MakeDate(ParseInt(f[order[3]]), ParseInt(f[order[2]]), DayOf(f[order[1]]))
    ELSE NoDate

\* strptime with "%d %b %Y" or "%d %B %Y": names is the month names accepted
StrptimeNamed(s, names) ==
    LET f == Words(s) IN
    IF Len(f) = 3 /\ IsDayField(f[1]) /\ IsYearField(f[3])
                  /\ \E k \in 1..12 : names[k] = Lower(f[2])
    THEN MakeDate(ParseInt(f[3]), CHOOSE k \in 1..12 : names[k] = Lower(f[2]), DayOf(f[1]))
    ELSE NoDate

\* datetime.strptime(s, fmt) for the k-th format of the tuple at extract.py:45
Strptime(s, k) ==
    CASE k = 1 -> StrptimeNumeric(s, "-", <<1, 2, 3>>)   \* %d-%m-%Y
      [] k = 2 -> StrptimeNumeric(s, "/", <<1, 2, 3>>)   \* %d/%m/%Y
      [] k = 3 -> StrptimeNumeric(s, "/", <<2, 1, 3>>)   \* %m/%d/%Y
      [] k = 4 -> StrptimeNumeric(s, ".", <<1, 2, 3>>)   \* %d.%m.%Y
      [] k = 5 -> StrptimeNumeric(s, "/", <<3, 2, 1>>)   \* %Y/%m/%d
      [] k = 6 -> StrptimeNamed(s, MonthAbbr)            \* %d %b %Y
      [] k = 7 -> StrptimeNamed(s, MonthFull)            \* %d %B %Y

NumFormats == 7

\* re.match(r"^\d{4}-\d{2}-\d{2}$", s)
MatchesIso(s) ==
    /\ Len(s) = 10
    /\ \A i \in {1, 2, 3, 4, 6, 7, 9, 10} : IsDigit(s[i])
    /\ s[5] = "-" /\ s[8] = "-"

\* the length of the run of digits s starts with
RECURSIVE DigitRun(_)
DigitRun(s) == IF s # <<>> /\ IsDigit(Head(s)) THEN 1 + DigitRun(Tail(s)) ELSE 0

MaxOffsetDigits == 3

\* the match without re.I
MatchRelative_cs(s) ==
    IF s = <<>> \/ Head(s) # "+" THEN <<>>
    ELSE LET rest == Tail(s)
             n    == DigitRun(rest)
             word == LStrip(SubSeq(rest, n + 1, Len(rest)))
         IN  IF n >= 1 /\ n <= MaxOffsetDigits
                /\ word \in {<<"d", "a", "y">>, <<"d", "a", "y", "s">>}
             THEN SubSeq(rest, 1, n)
             ELSE <<>>

\* re.match(r"^\+(\d{1,3})\s*day[s]?$", s, re.I): group 1, or <<>> for no match
MatchRelative(s) ==
    IF s = <<>> \/ Head(s) # "+" THEN <<>>
    ELSE LET rest == Tail(s)
             n    == DigitRun(rest)
             word == Lower(LStrip(SubSeq(rest, n + 1, Len(rest))))
         IN  IF n >= 1 /\ n <= MaxOffsetDigits
                /\ word \in {<<"d", "a", "y">>, <<"d", "a", "y", "s">>}
             THEN SubSeq(rest, 1, n)
             ELSE <<>>

\* the first format of the tuple that parses s, 0 when none does
FirstFormat(s) ==
    IF \E k \in 1..NumFormats : Strptime(s, k) # NoDate
    THEN CHOOSE k \in 1..NumFormats :
             Strptime(s, k) # NoDate /\ \A j \in 1..(k - 1) : Strptime(s, j) = NoDate
    ELSE 0

normalize_valid_until(val) ==
    IF val = <<>> THEN <<>>
    ELSE LET s == Strip(val)
             m == MatchRelative(s)
         IN  IF MatchesIso(s) THEN s
             ELSE IF m # <<>> THEN Strftime(PlusDays(REF_DATE, ParseInt(m)))
             ELSE IF FirstFormat(s) # 0 THEN Strftime(Strptime(s, FirstFormat(s)))
             ELSE s

-----------------------------------------------------------------------------
(* Python values *)

PyNone == [t |-> "none", s |-> <<>>, kv |-> <<>>]
PyStr(str) == [t |-> "str", s |-> str, kv |-> <<>>]
PyInt(n) == [t |-> "int", s |-> Pad(n, 1), kv |-> <<>>]
PyDict(f) == [t |-> "dict", s |-> <<>>, kv |-> f]
PyList(items) == [t |-> "list", s |-> <<>>, kv |-> items]
\* a raised exception, carried in place of a value
Exc(name) == [t |-> "exc", s |-> <<name>>, kv |-> <<>>]

EmptyDict == PyDict(<<>>)
EmptyStr == PyStr(<<>>)

IsExc(x) == x.t = "exc"

\* a string literal of one symbol
K(word) == <<word>>

\* bool(x)
Truthy(x) ==
    CASE x.t = "none" -> FALSE
      [] x.t = "str"  -> x.s # <<>>
      [] x.t = "int"  -> ParseInt(x.s) # 0
      [] x.t = "dict" -> DOMAIN x.kv # {}
      [] x.t = "list" -> x.kv # <<>>

\* x or y
Or(x, y) == IF Truthy(x) THEN x ELSE y

\* str(x); the text of a dict or a list is one symbol, neither empty nor whitespace
StrOf(x) ==
    CASE x.t = "none" -> <<"None">>
      [] x.t = "str"  -> x.s
      [] x.t = "int"  -> x.s
      [] x.t = "dict" -> <<"{...}">>
      [] x.t = "list" -> <<"[...]">>

\* x.get(key, default): only a dict has the method
Get(x, key, default) ==
    IF x.t # "dict" THEN Exc("AttributeError")
    ELSE IF key \in DOMAIN x.kv THEN x.kv[key] ELSE default

\* d[key] = val
Put(d, key, val) ==
    PyDict([k \in (DOMAIN d.kv) \cup {key} |-> IF k = key THEN val ELSE d.kv[k]])

\* a dict display {k1: v1, ...} of pairs <<k, v>> with distinct keys
DictOf(pairs) ==
    PyDict([k \in {pairs[i][1] : i \in 1..Len(pairs)} |->
               pairs[CHOOSE i \in 1..Len(pairs) : pairs[i][1] = k][2]])

-----------------------------------------------------------------------------
(* extract.py *)

\* _set_in keeping a leaf that is already set
RECURSIVE set_in_keep(_, _, _)
set_in_keep(d, path, value) ==
    IF Len(path) = 1
    THEN (IF path[1] \in DOMAIN d.kv THEN d ELSE Put(d, path[1], value))
    ELSE LET p   == path[1]
             cur == IF p \notin DOMAIN d.kv \/ d.kv[p].t # "dict"
                    THEN EmptyDict
                    ELSE d.kv[p]
         IN  Put(d, p, set_in_keep(cur, Tail(path), value))

\* _set_in with cur[p] = {} on every step
RECURSIVE set_in_fresh(_, _, _)
set_in_fresh(d, path, value) ==
    IF Len(path) = 1 THEN Put(d, path[1], value)
    ELSE Put(d, path[1], set_in_fresh(EmptyDict, Tail(path), value))

RECURSIVE set_in(_, _, _)
set_in(d, path, value) ==
    IF Len(path) = 1 THEN Put(d, path[1], value)
    ELSE LET p   == path[1]
             cur == IF p \notin DOMAIN d.kv \/ d.kv[p].t # "dict"
                    THEN EmptyDict
                    ELSE d.kv[p]
         IN  Put(d, p, set_in(cur, Tail(path), value))

\* the loop of _dotpaths_to_nested from the i-th field on
RECURSIVE NestFrom(_, _, _)
NestFrom(out, fields, i) ==
    IF i > Len(fields) THEN out
    ELSE LET name  == Get(fields[i], K("name"), PyNone)
             value == Get(fields[i], K("value"), PyNone)
         IN  IF IsExc(name) THEN name
             ELSE IF ~Truthy(name) THEN NestFrom(out, fields, i + 1)
             \* name.split: only a str has the method
             ELSE IF name.t # "str" THEN Exc("AttributeError")
             ELSE NestFrom(set_in(out, Split(name.s, "."), value), fields, i + 1)

\* extracted_fields is a list or None
dotpaths_to_nested(extracted_fields) ==
    NestFrom(EmptyDict, Or(extracted_fields, PyList(<<>>)).kv, 1)

\* _string_num_or_none without the strip
string_num_or_none_nostrip(val) ==
    IF val.t = "none" THEN PyStr(K("null"))
    ELSE LET s == StrOf(val)
         IN  IF s # <<>> THEN PyStr(s) ELSE PyStr(K("null"))

\* _string_num_or_none without the test for the empty string
string_num_or_none_keepempty(val) ==
    IF val.t = "none" THEN PyStr(K("null")) ELSE PyStr(Strip(StrOf(val)))

string_num_or_none(val) ==
    IF val.t = "none" THEN PyStr(K("null"))
    ELSE LET s == Strip(StrOf(val))
         IN  IF s # <<>> THEN PyStr(s) ELSE PyStr(K("null"))

mk_rate(node) ==
    LET per_kg     == Get(node, K("per_kg"), EmptyStr)
        min_charge == Get(node, K("min_charge"), EmptyStr)
    IN  IF IsExc(per_kg) THEN per_kg
        ELSE DictOf(<< <<K("per_kg"), string_num_or_none(per_kg)>>,
                       <<K("min_charge"), string_num_or_none(min_charge)>> >>)

\* flat.get(group, {}).get(cat, {}) if isinstance(flat.get(group, {}), dict) else {}
CategoryNode(fl, group, cat) ==
    IF Get(fl, K(group), EmptyDict).t = "dict"
    THEN Get(Get(fl, K(group), EmptyDict), K(cat), EmptyDict)
    ELSE EmptyDict

RateNames == <<"stackable", "non-stackable", "hazardous", "mix", "general">>
ScreeningNames == <<"primaryScreeningPrice", "secondaryScreeningPrice">>
FFWHNames == <<"fuelSurcharge", "freightCharge", "warRiskSurcharge", "handlingFee">>

\* one of the three groups of the result: the first exception raised, or the dict
Group(fl, group, names) ==
    LET node(i) == mk_rate(CategoryNode(fl, group, names[i])) IN
    IF \E i \in 1..Len(names) : IsExc(node(i))
    THEN node(CHOOSE i \in 1..Len(names) : IsExc(node(i)))
    ELSE DictOf([i \in 1..Len(names) |-> <<K(names[i]), node(i)>>])

\* the dict display at extract.py:63-83
Assemble(fl) ==
    LET vu       == Get(fl, K("valid_until"), EmptyStr)
        cur      == Get(fl, K("currency"), EmptyStr)
        rates    == Group(fl, "rates", RateNames)
        screen   == Group(fl, "screeningPrices", ScreeningNames)
        ffwh     == Group(fl, "FFWH", FFWHNames)
    IN  IF IsExc(rates) THEN rates
        ELSE IF IsExc(screen) THEN screen
        ELSE IF IsExc(ffwh) THEN ffwh
        ELSE DictOf(<<
            <<K("valid_until"),
              IF vu.t = "str" THEN PyStr(normalize_valid_until(vu.s)) ELSE EmptyStr>>,
            <<K("currency"), IF cur.t = "str" THEN cur ELSE EmptyStr>>,
            <<K("rates"), rates>>,
            <<K("screeningPrices"), screen>>,
            <<K("FFWH"), ffwh>> >>)

\* ej of extract.py:53
ExtractedJson(response) == Or(Get(Or(response, EmptyDict), K("extracted_json"), PyNone), EmptyDict)

\* fields of extract.py:54
ExtractedFields(response) ==
    LET ej == ExtractedJson(response) IN
    IF IsExc(ej) THEN ej
    ELSE LET got == Get(ej, K("extracted_fields"), PyNone) IN
         IF IsExc(got) THEN got ELSE Or(got, PyList(<<>>))

\* flat of extract.py:55
Flat(response) ==
    LET fields == ExtractedFields(response) IN
    IF IsExc(fields) THEN fields ELSE dotpaths_to_nested(fields)

extract_airline_rate_fields(response) ==
    LET fl == Flat(response) IN
    IF IsExc(fl) THEN fl ELSE Assemble(fl)

-----------------------------------------------------------------------------
(* The states the components rest in while another one runs *)

ExtractIdle ==
    /\ ex_pc = "idle" /\ chunkr_response = PyNone /\ flat = PyNone /\ result = PyNone

DateIdle ==
    /\ nv_pc = "idle" /\ days = 0 /\ calendar = REF_DATE /\ v = <<>> /\ ret = <<>>

NoResponse == [code |-> 0, status |-> "", state |-> "", output |-> FALSE,
               extracted_json |-> FALSE]

PollIdle ==
    /\ poll_pc = "idle" /\ api = "new" /\ max_tries = 0 /\ tries = 0
    /\ requests = 0 /\ sleeps = 0 /\ resp = NoResponse /\ raised = ""

NoResult == [status |-> "", output |-> "none"]

RouteIdle ==
    /\ route_pc = "idle" /\ tmp_path = "None" /\ tmp_file = FALSE
    /\ sdk_result = NoResult /\ http = "" /\ unlink_failed = FALSE

-----------------------------------------------------------------------------
(* extract_airline_rate_fields applied to the responses of the service *)

MaxFields == 2

\* the strings the fields are written with
Str_valid_until == <<"valid_until">>
Str_currency == <<"currency">>
Str_rates == <<"rates">>
Str_rates_stackable == <<"rates", ".", "stackable">>
Str_rates_stackable_per_kg == <<"rates", ".", "stackable", ".", "per_kg">>
Str_rates_stackable_min_charge == <<"rates", ".", "stackable", ".", "min_charge">>
Str_blank == <<" ">>
Str_1_5 == <<" ", "1", ".", "5", " ">>
Str_plus14 == <<"+", "1", "4", " ", "D", "a", "y", "s">>

\* a field entry without the key "name"
Absent == [t |-> "absent", s |-> <<>>, kv |-> <<>>]

NameChoices ==
    {Absent, EmptyStr, PyInt(7), PyStr(Str_valid_until), PyStr(Str_currency),
     PyStr(Str_rates), PyStr(Str_rates_stackable),
     PyStr(Str_rates_stackable_per_kg), PyStr(Str_rates_stackable_min_charge)}

ValueChoices == {PyNone, PyStr(Str_blank), PyStr(Str_1_5), PyStr(Str_plus14), PyInt(7)}

\* one entry {"name": name, "value": value} of extracted_fields
Field(name, value) ==
    IF name = Absent THEN DictOf(<< <<K("value"), value>> >>)
    ELSE DictOf(<< <<K("name"), name>>, <<K("value"), value>> >>)

FieldChoices == {Field(n, x) : n \in NameChoices, x \in ValueChoices}

FieldLists == UNION {[1..n -> FieldChoices] : n \in 0..MaxFields}

WithExtractedJson(ej) == DictOf(<< <<K("extracted_json"), ej>> >>)

Responses ==
    {PyNone, EmptyDict, WithExtractedJson(PyNone), WithExtractedJson(EmptyDict),
     WithExtractedJson(PyStr(K("oops"))),
     WithExtractedJson(DictOf(<< <<K("extracted_fields"), PyNone>> >>))}
    \cup {WithExtractedJson(DictOf(<< <<K("extracted_fields"), PyList(fs)>> >>)) :
              fs \in FieldLists}

Init ==
    /\ ex_pc = "call"
    /\ chunkr_response \in Responses
    /\ flat = PyNone
    /\ result = PyNone
    /\ DateIdle /\ PollIdle /\ RouteIdle

\* the call of extract_airline_rate_fields(chunkr_response)
Extract ==
    /\ ex_pc = "call"
    /\ flat' = Flat(chunkr_response)
    /\ result' = extract_airline_rate_fields(chunkr_response)
    /\ ex_pc' = IF IsExc(result') THEN "raised" ELSE "returned"
    /\ UNCHANGED <<chunkr_response, date_vars, poll_vars, route_vars>>

Next == Extract

Spec == Init /\ [][Next]_vars

-----------------------------------------------------------------------------
(* _normalize_valid_until applied to relative and other inputs *)

MaxDays == 1001

\* the day after dt
Tomorrow(dt) ==
    IF dt.d < DaysInMonth(dt.y, dt.m) THEN Date(dt.y, dt.m, dt.d + 1)
    ELSE IF dt.m < 12 THEN Date(dt.y, dt.m + 1, 1)
    ELSE Date(dt.y + 1, 1, 1)

\* the ways a "+N day(s)" string is written: whitespace around it, the digits
\* of N zero-padded to `width`, whitespace before the word, the word
RelativeForms ==
    [around : {<<>>, <<" ">>},
     width  : {1, MaxOffsetDigits},
     gap    : {<<>>, <<" ">>, <<" ", "\t">>},
     word   : {<<"d", "a", "y">>, <<"d", "a", "y", "s">>,
               <<"D", "a", "y", "s">>, <<"D", "A", "Y">>}]

RelativeInput(n, f) ==
    f.around \o <<"+">> \o Pad(n, f.width) \o f.gap \o f.word \o f.around

OtherInputs ==
    { <<>>, <<" ">>,
      <<"2", "0", "2", "5", "-", "1", "0", "-", "0", "7">>,
      <<" ", "2", "0", "2", "5", "-", "1", "0", "-", "0", "7", "\n">>,
      <<"0", "1", "/", "0", "2", "/", "2", "0", "2", "5">>,
      <<"0", "2", "/", "1", "3", "/", "2", "0", "2", "5">>,
      <<"1", "2", "/", " ", "5", "/", "2", "0", "2", "5">>,
      <<"3", "1", "-", "1", "2", "-", "2", "0", "2", "5">>,
      <<"3", "1", ".", "1", "2", ".", "2", "0", "2", "5">>,
      <<"2", "0", "2", "5", "/", "1", "2", "/", "3", "1">>,
      <<"1", " ", "J", "a", "n", " ", "2", "0", "2", "6">>,
      <<"1", " ", "j", "a", "n", "u", "a", "r", "y", " ", " ", "2", "0", "2", "6">>,
      <<"3", "0", "-", "0", "2", "-", "2", "0", "2", "5">>,
      <<"2", "9", ".", "0", "2", ".", "2", "0", "2", "8">>,
      <<"1", "-", "1", "-", "0", "0", "0", "0">>,
      <<"2", "0", "2", "5", "-", "1", "-", "5">>,
      <<"1", " ", "F", "o", "o", " ", "2", "0", "2", "6">>,
      <<"sometime", " ", "next", " ", "month">>,
      <<" ", "sometime", " ">>,
      <<"+", " ", "1", "4", " ", "d", "a", "y", "s">>,
      <<"+", "1", "4", " ", "d", "a", "y", "z">>,
      <<"1", "4", " ", "d", "a", "y", "s">> }

InitDate ==
    /\ nv_pc = "idle" /\ days = 0 /\ calendar = REF_DATE /\ v = <<>> /\ ret = <<>>
    /\ ExtractIdle /\ PollIdle /\ RouteIdle

\* the next offset to write inputs with, and the date it stands for
NextDay ==
    /\ nv_pc = "idle"
    /\ days < MaxDays
    /\ days' = days + 1
    /\ calendar' = Tomorrow(calendar)
    /\ nv_pc' = "idle" /\ v' = <<>> /\ ret' = <<>>
    /\ UNCHANGED <<extract_vars, poll_vars, route_vars>>

\* the call of _normalize_valid_until on a "+N day(s)" string, N = days
NormalizeRelative ==
    /\ nv_pc = "idle"
    /\ \E f \in RelativeForms :
           /\ v' = RelativeInput(days, f)
           /\ ret' = normalize_valid_until(v')
    /\ nv_pc' = "returned"
    /\ UNCHANGED <<days, calendar, extract_vars, poll_vars, route_vars>>

\* the call of _normalize_valid_until on another string
NormalizeOther ==
    /\ nv_pc = "idle"
    /\ \E val \in OtherInputs :
           /\ v' = val
           /\ ret' = normalize_valid_until(val)
    /\ nv_pc' = "returned"
    /\ UNCHANGED <<days, calendar, extract_vars, poll_vars, route_vars>>

NextDate == NextDay \/ NormalizeRelative \/ NormalizeOther

SpecDate == InitDate /\ [][NextDate]_vars

-----------------------------------------------------------------------------
(* What the claims speak of *)

\* r is s without its leading and trailing whitespace
IsTrimOf(r, s) ==
    \E i, j \in 0..Len(s) :
        /\ i + j <= Len(s)
        /\ \A k \in 1..i : IsSpace(s[k])
        /\ \A k \in (Len(s) - j + 1)..Len(s) : IsSpace(s[k])
        /\ r = SubSeq(s, i + 1, Len(s) - j)
        /\ r = <<>> \/ (~IsSpace(r[1]) /\ ~IsSpace(r[Len(r)]))

\* r reads YYYY-MM-DD and names the date dt
ReadsAsDate(r, dt) ==
    /\ Len(r) = 10
    /\ r[5] = "-" /\ r[8] = "-"
    /\ AllDigits(SubSeq(r, 1, 4)) /\ AllDigits(SubSeq(r, 6, 7)) /\ AllDigits(SubSeq(r, 9, 10))
    /\ ParseInt(SubSeq(r, 1, 4)) = dt.y
    /\ ParseInt(SubSeq(r, 6, 7)) = dt.m
    /\ ParseInt(SubSeq(r, 9, 10)) = dt.d

Str_2025_10_07 == <<"2", "0", "2", "5", "-", "1", "0", "-", "0", "7">>

\* C6 as claimed: every "+N day(s)" input, N any non-negative integer, returns
\* REF_DATE plus N days as YYYY-MM-DD.
C6_AnyOffset ==
    (nv_pc = "returned" /\ \E f \in RelativeForms : v = RelativeInput(days, f))
        => ReadsAsDate(ret, calendar)

\* C6 as amended: every "+N day(s)" input whose N is written with one to three
\* digits returns REF_DATE plus N days as YYYY-MM-DD, and "+14 Days" returns
\* "2025-10-07".
C6_UpToThreeDigits ==
    /\ \A f \in RelativeForms :
           (nv_pc = "returned" /\ v = RelativeInput(days, f)
                /\ Len(Pad(days, f.width)) <= 3)
               => ReadsAsDate(ret, calendar)
    /\ (nv_pc = "returned" /\ v = Str_plus14) => ret = Str_2025_10_07

C6_Witness ==
    /\ nv_pc = "returned" /\ days = 14
    /\ v = Str_plus14
    /\ ret = Str_2025_10_07

\* no rule of the normaliser recognises the stripped input
Unrecognised(val) ==
    LET s == Strip(val) IN
    /\ ~MatchesIso(s)
    /\ MatchRelative(s) = <<>>
    /\ FirstFormat(s) = 0

\* C7 as claimed: a non-empty input that no rule recognises is returned
\* character for character, its leading and trailing whitespace included.
C7_ReturnedUnchanged ==
    (nv_pc = "returned" /\ v # <<>> /\ Unrecognised(v)) => ret = v

\* C7 as amended: a non-empty input that no rule recognises is returned with
\* its leading and trailing whitespace removed and otherwise unchanged.
C7_ReturnedStripped ==
    (nv_pc = "returned" /\ v # <<>> /\ Unrecognised(v)) => IsTrimOf(ret, v)

C7_Witness ==
    /\ nv_pc = "returned"
    /\ v = <<" ", "sometime", " ">>
    /\ Unrecognised(v)
    /\ ret = <<"sometime">>

-----------------------------------------------------------------------------
(* The claims about extract_airline_rate_fields and its helpers *)

\* the list _dotpaths_to_nested was called with
InputFields ==
    LET fields == ExtractedFields(chunkr_response) IN
    IF fields.t = "list" THEN fields.kv ELSE <<>>

\* _dotpaths_to_nested was called and has ended
Nested == ex_pc # "call" /\ ExtractedFields(chunkr_response).t = "list"

NameOf(f) == Get(f, K("name"), PyNone)
ValueOf(f) == Get(f, K("value"), PyNone)

\* the entry has a non-empty name
HasPath(f) == NameOf(f).t = "str" /\ NameOf(f).s # <<>>

PathOf(f) == Split(NameOf(f).s, ".")

\* the value reached by walking the nested mapping d along path
Unreachable == Exc("KeyError")

RECURSIVE Walk(_, _)
Walk(d, path) ==
    IF d.t # "dict" \/ path[1] \notin DOMAIN d.kv THEN Unreachable
    ELSE IF Len(path) = 1 THEN d.kv[path[1]]
    ELSE Walk(d.kv[path[1]], Tail(path))

\* the index of the last entry of fs named as the i-th is
LastSame(fs, i) ==
    CHOOSE j \in i..Len(fs) :
        /\ NameOf(fs[j]) = NameOf(fs[i])
        /\ \A k \in (j + 1)..Len(fs) : NameOf(fs[k]) # NameOf(fs[i])

\* every entry has a string for a name, or none
NamesAreStrings(fs) == \A i \in 1..Len(fs) : NameOf(fs[i]).t \in {"str", "none"}

\* p is a proper prefix of q
ProperPrefix(p, q) == Len(p) < Len(q) /\ SubSeq(q, 1, Len(p)) = p

Conflict(p, q) == ProperPrefix(p, q) \/ ProperPrefix(q, p)

\* C1 as claimed: extract_airline_rate_fields never raises, whatever the
\* response holds.
C1_NeverRaises ==
    ex_pc # "call" => (ex_pc = "returned" /\ result.t = "dict")

\* C2 as claimed: for a list of entries named by strings, walking the nested
\* mapping along the path of any named entry reaches the value of the last
\* entry of that name.
C2_EveryPathReachable ==
    (Nested /\ NamesAreStrings(InputFields)) =>
        /\ flat.t = "dict"
        /\ \A i \in 1..Len(InputFields) :
               HasPath(InputFields[i]) =>
                   Walk(flat, PathOf(InputFields[i]))
                       = ValueOf(InputFields[LastSame(InputFields, i)])

\* C2 as amended: for a list of entries named by strings, walking the nested
\* mapping along the path of a named entry reaches the value of the last entry
\* of that name, provided no entry after that last one has a path that is a
\* proper prefix or a proper extension of it.
C2_UnshadowedPathReachable ==
    (Nested /\ NamesAreStrings(InputFields)) =>
        /\ flat.t = "dict"
        /\ \A i \in 1..Len(InputFields) :
               (/\ HasPath(InputFields[i])
                /\ \A j \in (LastSame(InputFields, i) + 1)..Len(InputFields) :
                       HasPath(InputFields[j]) =>
                           ~Conflict(PathOf(InputFields[j]), PathOf(InputFields[i])))
                   => Walk(flat, PathOf(InputFields[i]))
                          = ValueOf(InputFields[LastSame(InputFields, i)])

\* a duplicated path, resolved to the later value
C2_Witness ==
    /\ ex_pc = "returned"
    /\ Len(InputFields) = 2
    /\ NameOf(InputFields[1]) = PyStr(Str_rates_stackable_per_kg)
    /\ NameOf(InputFields[2]) = PyStr(Str_rates_stackable_per_kg)
    /\ ValueOf(InputFields[1]) = PyInt(7)
    /\ ValueOf(InputFields[2]) = PyStr(Str_1_5)
    /\ Walk(flat, PathOf(InputFields[1])) = PyStr(Str_1_5)

Permuted(fs, p) == [i \in 1..Len(fs) |-> fs[p[i]]]

DistinctNames(fs) ==
    \A i, j \in 1..Len(fs) : i # j => NameOf(fs[i]) # NameOf(fs[j])

\* C3 as claimed: with pairwise distinct names, every permutation of the list
\* yields the same nested mapping.
C3_OrderIrrelevant ==
    (Nested /\ NamesAreStrings(InputFields) /\ DistinctNames(InputFields)) =>
        /\ flat.t = "dict"
        /\ \A p \in Permutations(1..Len(InputFields)) :
               dotpaths_to_nested(PyList(Permuted(InputFields, p))) = flat

PrefixFree(fs) ==
    \A i, j \in 1..Len(fs) :
        (HasPath(fs[i]) /\ HasPath(fs[j])) => ~ProperPrefix(PathOf(fs[i]), PathOf(fs[j]))

\* C3 as amended: with pairwise distinct names of which none is a proper
\* prefix (in path segments) of another, every permutation of the list yields
\* the same nested mapping.
C3_OrderIrrelevantPrefixFree ==
    (Nested /\ NamesAreStrings(InputFields) /\ DistinctNames(InputFields)
        /\ PrefixFree(InputFields)) =>
        /\ flat.t = "dict"
        /\ \A p \in Permutations(1..Len(InputFields)) :
               dotpaths_to_nested(PyList(Permuted(InputFields, p))) = flat

\* two entries under one parent, in an order that has another
C3_Witness ==
    /\ ex_pc = "returned"
    /\ Len(InputFields) = 2
    /\ NameOf(InputFields[1]) = PyStr(Str_rates_stackable_min_charge)
    /\ NameOf(InputFields[2]) = PyStr(Str_rates_stackable_per_kg)
    /\ DOMAIN Walk(flat, <<K("rates"), K("stackable")>>).kv
           = {K("per_kg"), K("min_charge")}

Groups ==
    {<<"rates", RateNames>>, <<"screeningPrices", ScreeningNames>>, <<"FFWH", FFWHNames>>}

\* the source value is absent, None, empty or whitespace-only
Blank(node, key) ==
    \/ key \notin DOMAIN node.kv
    \/ node.kv[key].t = "none"
    \/ node.kv[key].t = "str" /\ \A i \in 1..Len(node.kv[key].s) : IsSpace(node.kv[key].s[i])

\* C4: every rate node of a returned document has exactly the keys per_kg and
\* min_charge, both strings and never empty: "null" for a source value that is
\* absent, None, empty or whitespace-only, the trimmed string of any other.
C4_RateNodeShape ==
    ex_pc = "returned" =>
        \A g \in Groups : \A i \in 1..Len(g[2]) :
            LET node == result.kv[K(g[1])].kv[K(g[2][i])]
                src  == CategoryNode(flat, g[1], g[2][i])
            IN  /\ DOMAIN node.kv = {K("per_kg"), K("min_charge")}
                /\ \A key \in DOMAIN node.kv :
                       /\ node.kv[key].t = "str"
                       /\ node.kv[key].s # <<>>
                       /\ Blank(src, key) => node.kv[key].s = K("null")
                       /\ ~Blank(src, key) =>
                              IsTrimOf(node.kv[key].s, StrOf(src.kv[key]))

\* a value with whitespace around it, and a whitespace-only one
C4_Witness ==
    /\ ex_pc = "returned"
    /\ Walk(flat, <<K("rates"), K("stackable"), K("per_kg")>>) = PyStr(Str_1_5)
    /\ Walk(flat, <<K("rates"), K("stackable"), K("min_charge")>>) = PyStr(Str_blank)
    /\ Walk(result, <<K("rates"), K("stackable"), K("per_kg")>>) = PyStr(<<"1", ".", "5">>)
    /\ Walk(result, <<K("rates"), K("stackable"), K("min_charge")>>) = PyStr(K("null"))

NullRate ==
    DictOf(<< <<K("per_kg"), PyStr(K("null"))>>, <<K("min_charge"), PyStr(K("null"))>> >>)

NullRates(names) == DictOf([i \in 1..Len(names) |-> <<K(names[i]), NullRate>>])

DefaultDocument ==
    DictOf(<< <<K("valid_until"), EmptyStr>>,
              <<K("currency"), EmptyStr>>,
              <<K("rates"), NullRates(RateNames)>>,
              <<K("screeningPrices"), NullRates(ScreeningNames)>>,
              <<K("FFWH"), NullRates(FFWHNames)>> >>)

\* the response carries no extracted-fields list
NoFieldsList(r) ==
    \/ r = PyNone
    \/ r = EmptyDict
    \/ r.t = "dict" /\ K("extracted_json") \notin DOMAIN r.kv
    \/ /\ r.t = "dict" /\ K("extracted_json") \in DOMAIN r.kv
       /\ r.kv[K("extracted_json")].t = "dict"
       /\ LET ej == r.kv[K("extracted_json")] IN
          \/ K("extracted_fields") \notin DOMAIN ej.kv
          \/ ej.kv[K("extracted_fields")] = PyList(<<>>)

\* C5: a response without an extracted-fields list gives the document with
\* valid_until "", currency "" and every rate node {per_kg: "null",
\* min_charge: "null"}.
C5_DefaultDocument ==
    (ex_pc # "call" /\ NoFieldsList(chunkr_response)) =>
        (ex_pc = "returned" /\ result = DefaultDocument)

C5_Witness ==
    /\ ex_pc = "returned"
    /\ chunkr_response = WithExtractedJson(DictOf(<< <<K("extracted_fields"), PyList(<<>>)>> >>))
    /\ Cardinality(DOMAIN result.kv[K("rates")].kv) = 5
    /\ Cardinality(DOMAIN result.kv[K("screeningPrices")].kv) = 2
    /\ Cardinality(DOMAIN result.kv[K("FFWH")].kv) = 4
    /\ result.kv[K("FFWH")].kv[K("handlingFee")] = NullRate

-----------------------------------------------------------------------------
(* chunkr_client.py: poll_task_until_complete and poll_task_until_complete_legacy *)

MaxTries == 3

SuccessStatuses == {"completed", "done", "Succeeded"}
FailureStatuses == {"failed", "error", "Failed"}

\* what the service answers a status request with: code 0 stands for no
\* answer (client.get raises: timeout, connection error), and a body is the
\* JSON object of a 200
Bodies ==
    [code : {200},
     status : {"", "Processing"} \cup SuccessStatuses \cup FailureStatuses,
     state : {"", "done", "failed"},
     output : BOOLEAN,
     extracted_json : BOOLEAN]

WithoutBody(code) == [NoResponse EXCEPT !.code = code]

PollResponses == {WithoutBody(c) : c \in {0, 401, 404, 500}} \cup Bodies

\* status_value of the loop
StatusValue(a, r) ==
    IF a = "new" THEN (IF r.status # "" THEN r.status ELSE r.state) ELSE r.status

\* the condition of the return
HasResult(a, r) ==
    \/ StatusValue(a, r) \in SuccessStatuses
    \/ a = "new" /\ r.output
    \/ r.extracted_json

\* range(max_tries + 1) in the place of range(max_tries)
LoopExhausted_offbyone == tries > max_tries

\* for _ in range(max_tries) has no iteration left
LoopExhausted == tries >= max_tries

InitPoll ==
    /\ poll_pc = "request"
    /\ api \in {"new", "legacy"}
    /\ max_tries \in 0..MaxTries
    /\ tries = 0 /\ requests = 0 /\ sleeps = 0
    /\ resp = NoResponse
    /\ raised = ""
    /\ ExtractIdle /\ DateIdle /\ RouteIdle

\* one iteration of the loop up to its return, raise or sleep
PollRequest ==
    /\ poll_pc = "request"
    /\ ~LoopExhausted
    /\ \E r \in PollResponses :
           /\ resp' = r
           /\ requests' = requests + 1
           /\ IF r.code = 0
              THEN poll_pc' = "raised" /\ raised' = "TransportError"
              ELSE IF r.code = 401
              THEN poll_pc' = "raised" /\ raised' = "PermissionError"
              ELSE IF r.code = 404
              THEN poll_pc' = "sleep" /\ raised' = raised
              ELSE IF r.code # 200
              THEN poll_pc' = "raised" /\ raised' = "HTTPStatusError"
              ELSE IF HasResult(api, r)
              THEN poll_pc' = "returned" /\ raised' = raised
              ELSE IF StatusValue(api, r) \in FailureStatuses
              THEN poll_pc' = "raised" /\ raised' = "RuntimeError"
              ELSE poll_pc' = "sleep" /\ raised' = raised
    /\ UNCHANGED <<api, max_tries, tries, sleeps, extract_vars, date_vars, route_vars>>

\* await asyncio.sleep(delay_seconds), which ends the iteration
PollSleep ==
    /\ poll_pc = "sleep"
    /\ sleeps' = sleeps + 1
    /\ tries' = tries + 1
    /\ poll_pc' = "request"
    /\ UNCHANGED <<api, max_tries, requests, resp, raised, extract_vars, date_vars,
                   route_vars>>

\* the loop is exhausted
PollTimeout ==
    /\ poll_pc = "request"
    /\ LoopExhausted
    /\ poll_pc' = "raised"
    /\ raised' = "TimeoutError"
    /\ UNCHANGED <<api, max_tries, tries, requests, sleeps, resp, extract_vars,
                   date_vars, route_vars>>

NextPoll == PollRequest \/ PollSleep \/ PollTimeout

\* every request is answered or times out (httpx timeout=30.0) and every sleep
\* ends, so a call that can take a step takes it
SpecPoll == InitPoll /\ [][NextPoll]_vars /\ WF_vars(NextPoll)

PollDone == poll_pc \in {"returned", "raised"}

\* a response that neither ends the task nor fails the call
NonTerminal(r) ==
    \/ r.code = 404
    \/ /\ r.code = 200
       /\ ~r.output /\ ~r.extracted_json
       /\ r.status \notin SuccessStatuses \cup FailureStatuses
       /\ r.state \notin SuccessStatuses \cup FailureStatuses

C9_FailureNeverReturned ==
    /\ (PollDone /\ resp.code = 401) => raised = "PermissionError"
    /\ (PollDone /\ resp.code = 200 /\ resp.status \in FailureStatuses)
           => (poll_pc = "raised" /\ raised = "RuntimeError")

-----------------------------------------------------------------------------
(* routers.py: process_file *)

\* what task.poll() returns: status "" stands for no status attribute, and
\* output for no output, a plain value, an object with json(), or one whose
\* json() raises
SdkResults ==
    [status : {"", "Starting", "Processing", "Succeeded", "completed", "done",
               "Failed", "Cancelled"},
     output : {"none", "plain", "json", "json_raises"}]

InitRoute ==
    /\ route_pc = "open"
    /\ tmp_path = "None"
    /\ tmp_file = FALSE
    /\ sdk_result = NoResult
    /\ http = ""
    /\ unlink_failed = FALSE
    /\ ExtractIdle /\ DateIdle /\ PollIdle

\* tempfile.NamedTemporaryFile(delete=False, suffix=".pdf") creates the file, or raises
RouteOpen ==
    /\ route_pc = "open"
    /\ \/ tmp_file' = TRUE /\ route_pc' = "write"
       \/ tmp_file' = tmp_file /\ route_pc' = "except"
    /\ UNCHANGED <<tmp_path, sdk_result, http, unlink_failed, extract_vars, date_vars,
                   poll_vars>>

\* tmp.write(await file.read()) and then tmp_path = tmp.name, or the read or
\* the write raises
RouteWrite ==
    /\ route_pc = "write"
    /\ \/ tmp_path' = "set" /\ route_pc' = "create_task"
       \/ tmp_path' = tmp_path /\ route_pc' = "except"
    /\ UNCHANGED <<tmp_file, sdk_result, http, unlink_failed, extract_vars, date_vars,
                   poll_vars>>

\* await sdk.create_task(tmp_path)
RouteCreateTask ==
    /\ route_pc = "create_task"
    /\ \/ route_pc' = "poll"
       \/ route_pc' = "except"
    /\ UNCHANGED <<tmp_path, tmp_file, sdk_result, http, unlink_failed, extract_vars,
                   date_vars, poll_vars>>

\* await task.poll()
RoutePoll ==
    /\ route_pc = "poll"
    /\ \/ \E r \in SdkResults : sdk_result' = r /\ route_pc' = "check"
       \/ sdk_result' = sdk_result /\ route_pc' = "except"
    /\ UNCHANGED <<tmp_path, tmp_file, http, unlink_failed, extract_vars, date_vars,
                   poll_vars>>

\* the check of the status and the building of the body
RouteCheck ==
    /\ route_pc = "check"
    /\ IF sdk_result.status \notin {"Succeeded", "completed", "done"}
       THEN http' = "502" /\ route_pc' = "finally"
       ELSE IF sdk_result.output = "json_raises"
       THEN http' = http /\ route_pc' = "except"
       ELSE http' = "200" /\ route_pc' = "finally"
    /\ UNCHANGED <<tmp_path, tmp_file, sdk_result, unlink_failed, extract_vars,
                   date_vars, poll_vars>>

\* except Exception: raise HTTPException(status_code=502, ...)
RouteExcept ==
    /\ route_pc = "except"
    /\ http' = "502"
    /\ route_pc' = "finally"
    /\ UNCHANGED <<tmp_path, tmp_file, sdk_result, unlink_failed, extract_vars,
                   date_vars, poll_vars>>

\* the finally clause
RouteFinally ==
    /\ route_pc = "finally"
    /\ IF tmp_path = "set" /\ tmp_file
       THEN \/ tmp_file' = FALSE /\ unlink_failed' = unlink_failed
            \/ tmp_file' = tmp_file /\ unlink_failed' = TRUE
       ELSE UNCHANGED <<tmp_file, unlink_failed>>
    /\ route_pc' = "done"
    /\ UNCHANGED <<tmp_path, sdk_result, http, extract_vars, date_vars, poll_vars>>

NextRoute ==
    \/ RouteOpen \/ RouteWrite \/ RouteCreateTask \/ RoutePoll
    \/ RouteCheck \/ RouteExcept \/ RouteFinally

SpecRoute == InitRoute /\ [][NextRoute]_vars

\* C10 as claimed: the caller gets a success body only after a poll that
\* returned Succeeded, completed or done, a 502 on every other path, and on
\* every exit the temporary file is gone if it was created (unless os.unlink
\* itself failed).
C10_RouteContract ==
    route_pc = "done" =>
        /\ http \in {"200", "502"}
        /\ http = "200" => sdk_result.status \in {"Succeeded", "completed", "done"}
        /\ tmp_file => unlink_failed

====
